---- MODULE Spec2Model ----
(***************************************************************************)
(* Model of sancus_step.h: the single-step harness of a Sancus protected   *)
(* module on an MSP430.  SANCUS_STEP_INIT and SANCUS_STEP_ISR are modelled *)
(* one machine instruction per action.  The CPU's interrupt entry, the     *)
(* timer peripheral, the protected module and the callback are the         *)
(* environment of that code.                                               *)
(***************************************************************************)
EXTENDS Integers, FiniteSets, Sequences, TLC

(* ---------------------------------------------------------------- bounds *)
MaxTar == 1
MaxInstr == 2
MaxIrq == 3
MaxInits == 2
MaxEntries == 2

(* ------------------------------------------------- constants of the code *)
INIT_LATENCY == 42
ISR_STACK_SIZE == 512
RESUME_LATENCY == 65
TACTL_ENABLE == 530
TACTL_ISR_DISABLE == 0
TACTL_DISABLE == 4

(* ------------------------------------------ bits of the MSP430 registers *)
SR_C == 1
SR_Z == 2
SR_N == 4
SR_GIE == 8
SR_V == 256
TAIFG == 1
TAIE == 2
TACLR == 4
MC_LSB == 16
WordMod == 65536

(* ---------------------------------------------------- layout of the image *)
IsrStackBase == 512
MainSp == 2560
SmSp == 2048
MainCode == 17408
InitCode == 17424
IsrCode == 17664
SmEntry == 24576

IsrStackEnd == IsrStackBase + 2 * ISR_STACK_SIZE
InitDisAddr == InitCode + 2
InitCcrAddr == InitCode + 4
InitEnAddr == InitCode + 6
MainPcs == {MainCode, MainCode + 2}
InitPcs == {InitDisAddr, InitCcrAddr, InitEnAddr}
CallRet == IsrCode + 16
SmBody == SmEntry + 32

W(x) == x % WordMod
BitSet(v, b) == (v \div b) % 2 = 1
SetBit(v, b) == IF BitSet(v, b) THEN v ELSE v + b
ClearBit(v, b) == IF BitSet(v, b) THEN v - b ELSE v

GIE(s) == BitSet(s, SR_GIE)
TimerRunning(t) == (t \div MC_LSB) % 4 # 0
InIsrStack(a) == a >= IsrStackBase /\ a < IsrStackEnd

(* The values __ss_isr_sp can hold when stepping starts: the header defines *)
(* it without an initialiser (0), the startup code of the image may point   *)
(* it at the last word of __ss_isr_stack or just past it.                   *)
IsrSpChoices == {0, IsrStackEnd - 2, IsrStackEnd}

Below(s) == {W(s + WordMod - 2), W(s + WordMod - 4), W(s + WordMod - 6)}
Addrs == UNION {Below(s) : s \in IsrSpChoices} \cup {MainSp - 2, MainSp - 4}

VARIABLES
    ctx,                \* context that runs outside the handler
    ipc,                \* position inside SANCUS_STEP_ISR, "none" outside
    pc, sr, r1, r15,    \* CPU registers
    tactl, taccr0, tar, \* Timer_A registers
    mem,                \* the stack words the model touches
    ss_isr_sp,          \* __ss_isr_sp
    ss_isr_tar_entry,   \* __ss_isr_tar_entry
    smSaved,            \* module context kept by the hardware while interrupted
    g                   \* history of the run, used by the properties only

vars == <<ctx, ipc, pc, sr, r1, r15, tactl, taccr0, tar, mem, ss_isr_sp,
          ss_isr_tar_entry, smSaved, g>>

cpu == <<pc, sr, r1, r15>>
data == <<mem, ss_isr_sp, ss_isr_tar_entry>>

Read(a) == IF a \in DOMAIN mem THEN mem[a] ELSE 0
Write(m, a, v) == IF a \in DOMAIN m THEN [m EXCEPT ![a] = v] ELSE m

(* --------------------------------------------------------------- Timer_A *)
(* Up mode: TAR counts 0..TACCR0 and sets TAIFG when it rolls over to 0.   *)
(* The number of cycles an instruction takes is left open: while the timer *)
(* runs, an instruction either sees the counter roll over (m) or sees it   *)
(* count on.  tar is TAR capped at MaxTar.                                 *)
TimerAfter(t, m) ==
    IF ~TimerRunning(t.tactl) THEN t
    ELSE IF m
         THEN [t EXCEPT !.tar = 0, !.tactl = SetBit(t.tactl, TAIFG)]
         ELSE [t EXCEPT !.tar = IF t.tar < MaxTar THEN t.tar + 1 ELSE t.tar]

Timer == [tactl |-> tactl, taccr0 |-> taccr0, tar |-> tar]

(* A write to TACTL: TACLR resets TAR and always reads back as 0. *)
WriteTactl(t, v) ==
    [t EXCEPT !.tactl = ClearBit(v, TACLR),
              !.tar = IF BitSet(v, TACLR) THEN 0 ELSE t.tar]

SetTimer(t) ==
    /\ tactl' = t.tactl
    /\ taccr0' = t.taccr0
    /\ tar' = t.tar

(* A requested interrupt is taken at the next instruction boundary, wherever *)
(* the CPU is, as soon as GIE and TAIE are set.                              *)
IrqDue == GIE(sr) /\ BitSet(tactl, TAIE) /\ BitSet(tactl, TAIFG)

G0 == [callbacks |-> 0, retired |-> 0, nIrq |-> 0, nWrites |-> 0, inits |-> 0,
       smEntries |-> 0, smExits |-> 0, last |-> "boot", path |-> "none",
       bSinceInit |-> FALSE, disSinceExit |-> 0, nRet |-> 0, nB |-> 0,
       overlap |-> FALSE, seq |-> <<>>, irqSinceDis |-> 0, irqSinceInit |-> 0,
       resumeSet |-> FALSE, isrSp0 |-> 0,
       ent |-> [ctx |-> "main", pc |-> 0, sr |-> 0, sp |-> 0, hsp |-> 0,
                hr15 |-> 0, callbacks |-> 0, taccr0 |-> 0, mem |-> <<>>]]

Init ==
    /\ ctx = "main"
    /\ ipc = "none"
    /\ pc = MainCode
    /\ sr = 0
    /\ r1 = MainSp
    /\ r15 = 0
    /\ tactl = 0
    /\ taccr0 = 0
    /\ tar = 0
    /\ mem = [a \in Addrs |-> 0]
    /\ ss_isr_sp \in IsrSpChoices
    /\ ss_isr_tar_entry = 0
    /\ smSaved = [pc |-> 0, sr |-> 0, sp |-> 0, r15 |-> 0]
    /\ g = [G0 EXCEPT !.isrSp0 = ss_isr_sp]

(* Every instruction takes time on MCLK, which clocks the timer. *)
Elapse(c) == SetTimer(TimerAfter(Timer, c))

(* ------------------------------------------------------ SANCUS_STEP_INIT *)
\* line 23: dint
\* the macro without its dint
InitDintSr_NoDint(s) == s

InitDintSr(s) == ClearBit(s, SR_GIE)

InitDint ==
    /\ ctx = "main" /\ ipc = "none" /\ ~IrqDue
    /\ pc \in MainPcs
    /\ g.inits < MaxInits
    /\ \E c \in BOOLEAN : Elapse(c)
    /\ sr' = InitDintSr(sr)
    /\ pc' = InitDisAddr
    /\ g' = [g EXCEPT !.inits = @ + 1, !.last = "dint"]
    /\ UNCHANGED <<ctx, ipc, r1, r15, data, smSaved>>

\* line 24: TACTL = TACTL_DISABLE
InitStopTimer(t) == WriteTactl(t, TACTL_DISABLE)

InitDis ==
    /\ ctx = "main" /\ ipc = "none" /\ ~IrqDue
    /\ pc = InitDisAddr
    /\ \E c \in BOOLEAN : SetTimer(InitStopTimer(TimerAfter(Timer, c)))
    /\ pc' = InitCcrAddr
    /\ g' = [g EXCEPT !.last = "init_dis"]
    /\ UNCHANGED <<ctx, ipc, sr, r1, r15, data, smSaved>>

\* line 25: TACCR0 = INIT_LATENCY
InitSetLatency(t) == [t EXCEPT !.taccr0 = INIT_LATENCY]

InitCcr ==
    /\ ctx = "main" /\ ipc = "none" /\ ~IrqDue
    /\ pc = InitCcrAddr
    /\ \E c \in BOOLEAN : SetTimer(InitSetLatency(TimerAfter(Timer, c)))
    /\ pc' = InitEnAddr
    /\ g' = [g EXCEPT !.last = "init_ccr", !.resumeSet = FALSE, !.irqSinceInit = 0]
    /\ UNCHANGED <<ctx, ipc, sr, r1, r15, data, smSaved>>

\* line 27: TACTL = TACTL_ENABLE
InitStartTimer(t) == WriteTactl(t, TACTL_ENABLE)

InitEn ==
    /\ ctx = "main" /\ ipc = "none" /\ ~IrqDue
    /\ pc = InitEnAddr
    /\ \E c \in BOOLEAN : SetTimer(InitStartTimer(TimerAfter(Timer, c)))
    /\ pc' = MainCode
    /\ g' = [g EXCEPT !.last = "init_en", !.bSinceInit = FALSE]
    /\ UNCHANGED <<ctx, ipc, sr, r1, r15, data, smSaved>>

(* ------------------------------------- code around the harness (not ISR) *)
\* an instruction of the unprotected program
MainStep ==
    /\ ctx = "main" /\ ipc = "none" /\ ~IrqDue
    /\ pc \in MainPcs
    /\ \E c \in BOOLEAN : Elapse(c)
    /\ pc' = IF pc = MainCode THEN MainCode + 2 ELSE MainCode
    /\ g' = [g EXCEPT !.last = "main"]
    /\ UNCHANGED <<ctx, ipc, sr, r1, r15, data, smSaved>>

\* the unprotected program enables interrupts
Eint ==
    /\ ctx = "main" /\ ipc = "none" /\ ~IrqDue
    /\ pc \in MainPcs
    /\ ~GIE(sr)
    /\ \E c \in BOOLEAN : Elapse(c)
    /\ sr' = SetBit(sr, SR_GIE)
    /\ g' = [g EXCEPT !.last = "eint"]
    /\ UNCHANGED <<ctx, ipc, pc, r1, r15, data, smSaved>>

\* the unprotected program calls into the protected module
SmEnter ==
    /\ ctx = "main" /\ ipc = "none" /\ ~IrqDue
    /\ pc \in MainPcs
    /\ g.inits >= 1
    /\ g.smEntries < MaxEntries
    /\ \E c \in BOOLEAN : Elapse(c)
    /\ ctx' = "sm"
    /\ pc' = SmBody + 2 * g.retired
    /\ r1' = SmSp
    /\ g' = [g EXCEPT !.smEntries = @ + 1, !.last = "sm_enter"]
    /\ UNCHANGED <<ipc, sr, r15, data, smSaved>>

\* the protected module retires one instruction
SmStep ==
    /\ ctx = "sm" /\ ipc = "none" /\ ~IrqDue
    /\ g.retired < MaxInstr
    /\ \E c \in BOOLEAN : Elapse(c)
    /\ pc' = pc + 2
    /\ g' = [g EXCEPT !.retired = @ + 1, !.last = "sm_step"]
    /\ UNCHANGED <<ctx, ipc, sr, r1, r15, data, smSaved>>

\* the protected module returns to the unprotected program
SmExit ==
    /\ ctx = "sm" /\ ipc = "none" /\ ~IrqDue
    /\ \E c \in BOOLEAN : Elapse(c)
    /\ ctx' = "main"
    /\ pc' = MainCode
    /\ r1' = MainSp
    /\ g' = [g EXCEPT !.smExits = @ + 1, !.disSinceExit = 0, !.last = "sm_exit"]
    /\ UNCHANGED <<ipc, sr, r15, data, smSaved>>

\* re-entry of an interrupted module through its entry point: the module's
\* own context comes back from where the hardware kept it
SmResume ==
    /\ ctx = "resume" /\ ipc = "none" /\ ~IrqDue
    /\ \E c \in BOOLEAN : Elapse(c)
    /\ ctx' = "sm"
    /\ pc' = smSaved.pc
    /\ sr' = smSaved.sr
    /\ r1' = smSaved.sp
    /\ r15' = smSaved.r15
    /\ g' = [g EXCEPT !.last = "sm_resume"]
    /\ UNCHANGED <<ipc, data, smSaved>>

(* ---------------------------------------------- interrupt entry (the CPU) *)
\* what the interrupt found (ctx, pc, sr, sp) and what it hands to the
\* handler (hsp, hr15, and the memory after the CPU's pushes)
Snapshot(hsp, hr15, stack) ==
    [ctx |-> IF ipc = "none" THEN ctx ELSE "isr", pc |-> pc, sr |-> sr, sp |-> r1,
     hsp |-> hsp, hr15 |-> hr15, callbacks |-> g.callbacks, taccr0 |-> taccr0,
     mem |-> stack]

\* outside a module the CPU pushes PC and SR and clears SR
IrqMain ==
    /\ IrqDue /\ (ctx # "sm" \/ ipc # "none")
    /\ g.nIrq < MaxIrq
    /\ \E c \in BOOLEAN : Elapse(c)
    /\ mem' = Write(Write(mem, W(r1 + WordMod - 2), IF ipc = "none" THEN pc ELSE IsrCode),
                    W(r1 + WordMod - 4), sr)
    /\ r1' = W(r1 + WordMod - 4)
    /\ sr' = 0
    /\ ipc' = "tar"
    /\ g' = [g EXCEPT !.nIrq = @ + 1, !.ent = Snapshot(r1', r15, mem'), !.path = "none",
                      !.seq = <<>>, !.irqSinceDis = @ + 1, !.irqSinceInit = @ + 1,
                      !.nB = @ + 1, !.overlap = @ \/ ipc # "none", !.last = "irq"]
    /\ UNCHANGED <<ctx, pc, r15, ss_isr_sp, ss_isr_tar_entry, smSaved>>

\* inside a module the CPU keeps the module's context to itself and hands
\* the handler cleared registers: r1 = 0, r15 = the module's entry point
IrqSm ==
    /\ IrqDue /\ ctx = "sm" /\ ipc = "none"
    /\ g.nIrq < MaxIrq
    /\ \E c \in BOOLEAN : Elapse(c)
    /\ smSaved' = [pc |-> pc, sr |-> sr, sp |-> r1, r15 |-> r15]
    /\ r1' = 0
    /\ r15' = SmEntry
    /\ sr' = 0
    /\ ipc' = "tar"
    /\ g' = [g EXCEPT !.nIrq = @ + 1, !.ent = Snapshot(r1', r15', mem), !.path = "none",
                      !.seq = <<>>, !.irqSinceDis = @ + 1, !.irqSinceInit = @ + 1,
                      !.nB = 0, !.last = "irq"]
    /\ UNCHANGED <<ctx, pc, data>>

(* ------------------------------------------------------- SANCUS_STEP_ISR *)
\* line 33: mov &TAR, &__ss_isr_tar_entry
\* the source operand is %1 (TACCR0) in place of %0 (TAR)
Line33Source_Taccr0(t) == t.taccr0

Line33Source(t) == t.tar

IsrTar ==
    /\ ipc = "tar" /\ ~IrqDue
    /\ \E c \in BOOLEAN :
          /\ Elapse(c)
          /\ ss_isr_tar_entry' = Line33Source(TimerAfter(Timer, c))
    /\ ipc' = "cmp"
    /\ g' = [g EXCEPT !.last = "tar", !.seq = Append(@, <<"tar", ss_isr_tar_entry'>>)]
    /\ UNCHANGED <<ctx, cpu, mem, ss_isr_sp, smSaved>>

\* line 34: cmp #0x0, r1 (r1 - 0: carry always set, Z iff r1 = 0, N the sign
\* of r1, V reset because subtracting 0 never overflows)
CmpZero(s, v) ==
    LET cleared == ClearBit(ClearBit(ClearBit(ClearBit(s, SR_C), SR_Z), SR_N), SR_V)
    IN  cleared + SR_C + (IF v = 0 THEN SR_Z ELSE 0)
                + (IF v >= WordMod \div 2 THEN SR_N ELSE 0)

IsrCmp ==
    /\ ipc = "cmp" /\ ~IrqDue
    /\ \E c \in BOOLEAN : Elapse(c)
    /\ sr' = CmpZero(sr, r1)
    /\ ipc' = "jne"
    /\ g' = [g EXCEPT !.last = "cmp", !.seq = Append(@, <<"cmp", r1>>)]
    /\ UNCHANGED <<ctx, pc, r1, r15, data, smSaved>>

\* line 35: jne 1f
\* jne to the branch itself: the handler spins when r1 # 0
JneTarget_Spin(s) == IF BitSet(s, SR_Z) THEN "movsp" ELSE "jne"

\* jeq in place of jne
JneTarget_Jeq(s) == IF BitSet(s, SR_Z) THEN "dis" ELSE "movsp"

\* jne 2f in place of jne 1f: the branch skips the disable
JneTarget_SkipDisable(s) == IF ~BitSet(s, SR_Z) THEN "reti" ELSE "movsp"

JneTarget(s) == IF ~BitSet(s, SR_Z) THEN "dis" ELSE "movsp"

IsrJne ==
    /\ ipc = "jne" /\ ~IrqDue
    /\ \E c \in BOOLEAN : Elapse(c)
    /\ ipc' = JneTarget(sr)
    /\ g' = [g EXCEPT !.path = IF ipc' = "movsp" THEN "A" ELSE "B", !.last = "jne",
                      !.seq = Append(@, <<"jne", 0>>)]
    /\ UNCHANGED <<ctx, cpu, data, smSaved>>

\* line 37: mov &__ss_isr_sp, r1
IsrMovSp ==
    /\ ipc = "movsp" /\ ~IrqDue
    /\ \E c \in BOOLEAN : Elapse(c)
    /\ r1' = ss_isr_sp
    /\ ipc' = "push15"
    /\ g' = [g EXCEPT !.last = "movsp", !.seq = Append(@, <<"movsp", r1'>>)]
    /\ UNCHANGED <<ctx, pc, sr, r15, data, smSaved>>

Push(v) ==
    /\ r1' = W(r1 + WordMod - 2)
    /\ mem' = Write(mem, W(r1 + WordMod - 2), v)

\* line 38: push r15
\* push r1 in place of push r15
Line38Operand_R1 == r1

Line38Operand == r15

IsrPushR15 ==
    /\ ipc = "push15" /\ ~IrqDue
    /\ \E c \in BOOLEAN : Elapse(c)
    /\ Push(Line38Operand)
    /\ ipc' = "push0"
    /\ g' = [g EXCEPT !.last = "push15", !.seq = Append(@, <<"push", Line38Operand>>)]
    /\ UNCHANGED <<ctx, pc, sr, r15, ss_isr_sp, ss_isr_tar_entry, smSaved>>

\* line 39: push #0x0
\* push #0x8: a status word with GIE set
Line39Operand_Gie == SR_GIE

Line39Operand == 0

IsrPush0 ==
    /\ ipc = "push0" /\ ~IrqDue
    /\ \E c \in BOOLEAN : Elapse(c)
    /\ Push(Line39Operand)
    /\ ipc' = "call"
    /\ g' = [g EXCEPT !.last = "push0", !.seq = Append(@, <<"push", Line39Operand>>)]
    /\ UNCHANGED <<ctx, pc, sr, r15, ss_isr_sp, ss_isr_tar_entry, smSaved>>

\* line 40: call #fct
IsrCall ==
    /\ ipc = "call" /\ ~IrqDue
    /\ \E c \in BOOLEAN : Elapse(c)
    /\ Push(CallRet)
    /\ ipc' = "fct"
    /\ g' = [g EXCEPT !.callbacks = @ + 1, !.last = "call",
                      !.seq = Append(@, <<"call", 0>>)]
    /\ UNCHANGED <<ctx, pc, sr, r15, ss_isr_sp, ss_isr_tar_entry, smSaved>>

\* the callback runs: it may use r15 (caller-saved) and takes time
FctRun ==
    /\ ipc = "fct" /\ ~IrqDue
    /\ \E c \in BOOLEAN : Elapse(c)
    /\ r15' \in {r15, 0}
    /\ g' = [g EXCEPT !.last = "fct"]
    /\ UNCHANGED <<ctx, ipc, pc, sr, r1, data, smSaved>>

\* the callback returns with a balanced stack: ret pops the return address
FctRet ==
    /\ ipc = "fct" /\ ~IrqDue
    /\ \E c \in BOOLEAN : Elapse(c)
    /\ r1' = W(r1 + 2)
    /\ ipc' = IF Read(r1) = CallRet THEN "ccr" ELSE "lost"
    /\ g' = [g EXCEPT !.last = "ret"]
    /\ UNCHANGED <<ctx, pc, sr, r15, data, smSaved>>

\* line 41: mov #0x41, &TACCR0
\* the startup latency written in place of the latency of resume
IsrSetLatency_Init(t) == [t EXCEPT !.taccr0 = INIT_LATENCY]

IsrSetLatency(t) == [t EXCEPT !.taccr0 = RESUME_LATENCY]

IsrCcr ==
    /\ ipc = "ccr" /\ ~IrqDue
    /\ \E c \in BOOLEAN : SetTimer(IsrSetLatency(TimerAfter(Timer, c)))
    /\ ipc' = "en"
    /\ g' = [g EXCEPT !.last = "ccr", !.resumeSet = TRUE,
                      !.seq = Append(@, <<"taccr0", taccr0'>>)]
    /\ UNCHANGED <<ctx, cpu, data, smSaved>>

\* line 42: mov #0x212, &TACTL
\* the write goes to TACCR0 (%1) in place of TACTL (%2)
IsrRearm_WrongReg(t) == [t EXCEPT !.taccr0 = TACTL_ENABLE]

IsrRearm(t) == WriteTactl(t, TACTL_ENABLE)

IsrEn ==
    /\ ipc = "en" /\ ~IrqDue
    /\ \E c \in BOOLEAN : SetTimer(IsrRearm(TimerAfter(Timer, c)))
    /\ ipc' = "jmp"
    /\ g' = [g EXCEPT !.nWrites = @ + 1, !.last = "en",
                      !.seq = Append(@, <<"tactl", tactl'>>)]
    /\ UNCHANGED <<ctx, cpu, data, smSaved>>

\* line 43: jmp 2f
IsrJmp ==
    /\ ipc = "jmp" /\ ~IrqDue
    /\ \E c \in BOOLEAN : Elapse(c)
    /\ ipc' = "reti"
    /\ g' = [g EXCEPT !.last = "jmp", !.seq = Append(@, <<"jmp", 0>>)]
    /\ UNCHANGED <<ctx, cpu, data, smSaved>>

\* line 46: mov #0x0, &TACTL
\* the write goes to TACCR0 (%1) in place of TACTL (%2)
IsrDisable_WrongReg(t) == [t EXCEPT !.taccr0 = TACTL_ISR_DISABLE]

\* the enable value written on the disable path
IsrDisable_Enable(t) == WriteTactl(t, TACTL_ENABLE)

IsrDisable(t) == WriteTactl(t, TACTL_ISR_DISABLE)

IsrDis ==
    /\ ipc = "dis" /\ ~IrqDue
    /\ \E c \in BOOLEAN : SetTimer(IsrDisable(TimerAfter(Timer, c)))
    /\ ipc' = "reti"
    /\ g' = [g EXCEPT !.nWrites = @ + 1, !.bSinceInit = TRUE,
                      !.disSinceExit = @ + 1, !.last = "dis", !.irqSinceDis = 0,
                      !.seq = Append(@, <<"tactl", tactl'>>)]
    /\ UNCHANGED <<ctx, cpu, data, smSaved>>

\* where the program continues after reti, by the address it returns to
CtxOf(a) ==
    IF a \in MainPcs \cup InitPcs THEN "main"
    ELSE IF a = SmEntry THEN "resume" ELSE "lost"

\* line 48: reti pops SR, then PC
IsrReti ==
    /\ ipc = "reti" /\ ~IrqDue
    /\ \E c \in BOOLEAN : Elapse(c)
    /\ sr' = Read(r1)
    /\ pc' = Read(W(r1 + 2))
    /\ r1' = W(r1 + 4)
    /\ ipc' = "none"
    /\ ctx' = CtxOf(pc')
    /\ g' = [g EXCEPT !.nRet = @ + 1, !.last = "reti", !.seq = Append(@, <<"reti", 0>>)]
    /\ UNCHANGED <<r15, data, smSaved>>

Next ==
    \/ InitDint \/ InitDis \/ InitCcr \/ InitEn
    \/ MainStep \/ Eint \/ SmEnter \/ SmStep \/ SmExit \/ SmResume
    \/ IrqMain \/ IrqSm
    \/ IsrTar \/ IsrCmp \/ IsrJne \/ IsrMovSp \/ IsrPushR15 \/ IsrPush0
    \/ IsrCall \/ FctRun \/ FctRet \/ IsrCcr \/ IsrEn \/ IsrJmp \/ IsrDis
    \/ IsrReti

Spec == Init /\ [][Next]_vars

(* The CPU executes the handler's next instruction whenever it is inside the *)
(* handler (interrupts are off there, nothing else is scheduled), and the    *)
(* callback is assumed to return.                                            *)
HandlerStep ==
    \/ IsrTar \/ IsrCmp \/ IsrJne \/ IsrMovSp \/ IsrPushR15 \/ IsrPush0
    \/ IsrCall \/ FctRet \/ IsrCcr \/ IsrEn \/ IsrJmp \/ IsrDis \/ IsrReti

FairSpec == Spec /\ WF_vars(HandlerStep)

TypeOK ==
    /\ ctx \in {"main", "sm", "resume", "lost"}
    /\ tar \in 0..MaxTar
    /\ r1 \in 0..(WordMod - 1)

(* ================================================================ claims *)
Idle == ipc = "none"
StateA == g.ent.hsp = 0      \* the handler was entered with r1 = 0
StateB == g.ent.hsp # 0
Returned == g.last = "reti"  \* the handler's reti was the last instruction

(* C1 (as claimed): whenever the module runs with interrupts enabled and no  *)
(* timer interrupt is waiting to be taken, the callback has been invoked     *)
(* exactly once for every module instruction retired so far.                 *)
Orig_C1 ==
    (Idle /\ ctx = "sm" /\ GIE(sr) /\ ~BitSet(tactl, TAIFG))
        => g.callbacks = g.retired

(* C2: a handler invocation entered with a nonzero stack pointer invokes no  *)
(* callback and returns with TACTL = 0, however many such invocations came    *)
(* before it, and the disable write applied to that timer state changes       *)
(* nothing.                                                                   *)
Thm_C2 ==
    (Returned /\ StateB)
        => /\ tactl = 0
           /\ ~TimerRunning(tactl)
           /\ g.callbacks = g.ent.callbacks
           /\ IsrDisable(Timer) = Timer

Wit_C2 == Returned /\ StateB /\ g.nB = 2 /\ tactl = 0 /\ g.smEntries >= 1

(* C3 (as claimed): after one initialization, one entry and one exit of the  *)
(* module, once the handler has disabled the timer the callback has been      *)
(* invoked once per instruction the module retired and exactly one disable    *)
(* has happened since the exit.                                               *)
Orig_C3 ==
    (Idle /\ ctx = "main" /\ g.inits = 1 /\ g.smEntries = 1 /\ g.smExits = 1
          /\ g.retired >= 1 /\ g.disSinceExit >= 1)
        => (g.callbacks = g.retired /\ g.disSinceExit = 1)

(* C4: as long as the module has not been entered the callback has not been  *)
(* invoked, and after one initialization the timer is disabled in every state *)
(* from the return of the first handler invocation on.                        *)
Thm_C4 ==
    g.smEntries = 0
        => /\ g.callbacks = 0
           /\ (g.inits = 1 /\ g.nRet >= 1) => (tactl = 0 /\ ~TimerRunning(tactl))

Wit_C4 ==
    /\ g.smEntries = 0 /\ g.inits = 1 /\ g.nRet = 1
    /\ g.last = "main" /\ GIE(sr) /\ tactl = 0

(* C5: handler invocations do not overlap: an interrupt is never taken while *)
(* the handler or the callback runs, every invocation but the running one has *)
(* done its write to TACTL, and once that write is done only the jump to the  *)
(* return and the return itself are left.                                     *)
Thm_C5 ==
    /\ ~g.overlap
    /\ g.nIrq - g.nWrites \in {0, 1}
    /\ Idle => g.nWrites = g.nIrq
    /\ g.nWrites = g.nIrq => ipc \in {"none", "jmp", "reti"}
    /\ ipc \in {"jmp", "reti"} => g.nWrites = g.nIrq
    /\ ~Idle => ~GIE(sr)

Wit_C5 ==
    /\ ipc = "fct" /\ g.nIrq = 2 /\ g.nWrites = 1
    /\ BitSet(tactl, TAIFG) /\ BitSet(tactl, TAIE) /\ g.last = "fct"

(* C6 (as claimed): whenever unprotected code runs, the timer is disabled.   *)
Orig_C6 == (Idle /\ ctx = "main") => ~TimerRunning(tactl)

(* C6 (amended): from the disable write of a State B invocation until        *)
(* SANCUS_STEP_INIT enables the timer again, the timer is disabled.           *)
Thm_C6 == g.bSinceInit => (tactl = 0 /\ ~TimerRunning(tactl))

Wit_C6 ==
    /\ Idle /\ ctx = "main" /\ g.bSinceInit /\ g.smExits >= 1 /\ g.callbacks >= 1
    /\ GIE(sr) /\ g.last = "main"

(* C7: SANCUS_STEP_INIT runs with interrupts disabled from its first         *)
(* instruction on, sets the threshold to INIT_LATENCY while the timer is      *)
(* stopped, and enables the timer last; no interrupt is taken in between.     *)
Thm_C7 ==
    /\ pc \in InitPcs => (Idle /\ ~GIE(sr) /\ ctx = "main")
    /\ pc \in {InitCcrAddr, InitEnAddr} => (tactl = 0 /\ ~TimerRunning(tactl))
    /\ pc = InitEnAddr => taccr0 = INIT_LATENCY
    /\ g.last = "init_en"
           => (tactl = TACTL_ENABLE /\ TimerRunning(tactl) /\ taccr0 = INIT_LATENCY
               /\ ~GIE(sr))

Wit_C7 == g.last = "init_en" /\ g.inits = 2 /\ g.nIrq >= 1 /\ taccr0 = INIT_LATENCY

(* C8 (as claimed): after the handler's return the program counter, status   *)
(* register and stack pointer are those the interrupt found.                  *)
Orig_C8 == Returned => (pc = g.ent.pc /\ sr = g.ent.sr /\ r1 = g.ent.sp)

(* C8 (amended): after State B the program counter, status register and      *)
(* stack pointer are those the interrupt found; after State A the status      *)
(* register is 0, the program counter is the value r15 had at handler entry   *)
(* and the stack pointer is __ss_isr_sp.                                      *)
Thm_C8 ==
    Returned =>
        IF StateA
        THEN sr = 0 /\ pc = g.ent.hr15 /\ r1 = ss_isr_sp
        ELSE pc = g.ent.pc /\ sr = g.ent.sr /\ r1 = g.ent.sp

Wit_C8 == Returned /\ StateA /\ pc = SmEntry /\ g.ent.pc # pc /\ GIE(g.ent.sr)

(* C9 (as claimed): outside the handler the stack pointer never points into  *)
(* __ss_isr_stack.                                                            *)
Orig_C9 == Idle => ~InIsrStack(r1)

(* C9 (amended): outside the handler the stack pointer points into           *)
(* __ss_isr_stack only between a State A return and the re-entered module's   *)
(* restoring its own stack pointer, when it equals __ss_isr_sp.               *)
Thm_C9 ==
    Idle => IF ctx = "resume" THEN r1 = ss_isr_sp /\ Returned /\ StateA
            ELSE ~InIsrStack(r1)

Wit_C9 == Idle /\ ctx = "resume" /\ InIsrStack(r1) /\ g.callbacks = 2

(* ------------------------------------------- the handler's recorded steps *)
Entered == g.nIrq >= 1
Labels(q) == [i \in DOMAIN q |-> q[i][1]]
IsPrefix(p, q) == Len(p) <= Len(q) /\ \A i \in DOMAIN p : p[i] = q[i]
OrderA == <<"tar", "cmp", "jne", "movsp", "push", "push", "call",
            "taccr0", "tactl", "jmp", "reti">>
OrderB == <<"tar", "cmp", "jne", "tactl", "reti">>

(* C11: in an invocation entered with r1 = 0 the instructions executed so   *)
(* far are always a prefix of: stack switch to __ss_isr_sp, push of the      *)
(* entry r15, push of 0, call, TACCR0 := 0x41, TACTL := 0x212, return; at    *)
(* the return each has happened exactly once; the callback has been called   *)
(* exactly when the call has been executed and runs only between the call    *)
(* and the threshold write.                                                  *)
Thm_C11 ==
    (Entered /\ StateA)
        => /\ IsPrefix(Labels(g.seq), OrderA)
           /\ Returned => Labels(g.seq) = OrderA
           /\ \A i \in DOMAIN g.seq :
                 /\ i = 4 => g.seq[i][2] = ss_isr_sp
                 /\ i = 5 => g.seq[i][2] = g.ent.hr15
                 /\ i = 6 => g.seq[i][2] = 0
                 /\ i = 8 => g.seq[i][2] = RESUME_LATENCY
                 /\ i = 9 => g.seq[i][2] = TACTL_ENABLE
           /\ g.callbacks = g.ent.callbacks + (IF Len(g.seq) >= 7 THEN 1 ELSE 0)
           /\ ipc = "fct" => Len(g.seq) = 7

Wit_C11 ==
    /\ Returned /\ StateA /\ Labels(g.seq) = OrderA
    /\ g.callbacks = 2 /\ g.ent.callbacks = 1

TimerWrites == {i \in DOMAIN g.seq : g.seq[i][1] = "tactl"}

(* C12: the path of an invocation is chosen once, by the third instruction,  *)
(* and it is the stack-switch/callback/rearm path if and only if r1 was 0 at *)
(* handler entry (which is the case exactly when a module was interrupted);  *)
(* the instructions executed are a prefix of that one path even after r1 has *)
(* changed, and an invocation writes TACTL at most once: 0x212 on the first  *)
(* path, 0 on the other.                                                     *)
Thm_C12 ==
    Entered
        => /\ g.path = "none" <=> (~Returned /\ ipc \in {"tar", "cmp", "jne"})
           /\ g.path # "none" => (g.path = "A" <=> StateA)
           /\ StateA <=> g.ent.ctx = "sm"
           /\ IsPrefix(Labels(g.seq), IF StateA THEN OrderA ELSE OrderB)
           /\ Cardinality(TimerWrites) <= 1
           /\ \A i \in TimerWrites :
                 g.seq[i][2] = IF StateA THEN TACTL_ENABLE ELSE TACTL_ISR_DISABLE

Wit_C12 ==
    /\ ipc = "jmp" /\ StateA /\ g.path = "A" /\ r1 # 0
    /\ Cardinality(TimerWrites) = 1 /\ g.nIrq = 2

(* C13: from the entry of an invocation entered with r1 # 0 to its return,   *)
(* TACCR0, every stack word (the interrupt stack included), __ss_isr_sp and  *)
(* the number of callbacks made are what they were at entry, and r1 is the   *)
(* entry value inside the handler and the interrupted code's value after the *)
(* return; at the return TACTL = 0 and __ss_isr_tar_entry holds the count    *)
(* stored by the first instruction.                                          *)
Thm_C13 ==
    (Entered /\ StateB /\ (~Idle \/ Returned))
        => /\ taccr0 = g.ent.taccr0
           /\ mem = g.ent.mem
           /\ ss_isr_sp = g.isrSp0
           /\ g.callbacks = g.ent.callbacks
           /\ r1 = IF Returned THEN g.ent.sp ELSE g.ent.hsp
           /\ Returned => /\ tactl = TACTL_ISR_DISABLE
                          /\ ss_isr_tar_entry = g.seq[1][2]
                          /\ Labels(g.seq) = OrderB

Wit_C13 ==
    /\ Returned /\ StateB /\ g.callbacks >= 1
    /\ taccr0 = RESUME_LATENCY /\ InIsrStack(ss_isr_sp)
    /\ Read(W(ss_isr_sp - 2)) = SmEntry

\* line 25 of the latest run of SANCUS_STEP_INIT has been executed
LatencyInitialised == g.inits >= 1 /\ pc \notin {InitDisAddr, InitCcrAddr}

(* C14: TACCR0 is 42 from line 25 of SANCUS_STEP_INIT until the first        *)
(* invocation entered with r1 = 0 after it executes line 41, and 0x41 from   *)
(* then on (until SANCUS_STEP_INIT is run again); it holds no other value    *)
(* except the reset value 0 before the first SANCUS_STEP_INIT.  The first    *)
(* interrupt taken after SANCUS_STEP_INIT finds TACCR0 = 42, every later one *)
(* finds 0x41.                                                               *)
Thm_C14 ==
    /\ taccr0 \in {0, INIT_LATENCY, RESUME_LATENCY}
    /\ taccr0 = 0 => (g.inits <= 1 /\ ~LatencyInitialised)
    /\ LatencyInitialised
          => taccr0 = IF g.resumeSet THEN RESUME_LATENCY ELSE INIT_LATENCY
    /\ g.irqSinceInit = 1 => g.ent.taccr0 = INIT_LATENCY
    /\ g.irqSinceInit >= 2 => g.ent.taccr0 = RESUME_LATENCY
    /\ g.resumeSet => (g.irqSinceInit >= 1 /\ g.callbacks >= 1)

Wit_C14 ==
    /\ ipc = "tar" /\ g.inits = 1 /\ g.irqSinceInit = 3
    /\ g.ent.taccr0 = RESUME_LATENCY /\ taccr0 = RESUME_LATENCY

(* C15: under FairSpec every handler invocation that has been entered        *)
(* reaches its reti, and it has then executed exactly the 11 instructions of *)
(* the first path (the callback's own instructions aside) or the 5 of the    *)
(* second; inside the handler no more than that many have been executed.     *)
Thm_C15 ==
    /\ [](Entered => Len(g.seq) <= Len(IF StateA THEN OrderA ELSE OrderB))
    /\ [](Returned => Len(g.seq) = Len(IF StateA THEN OrderA ELSE OrderB))
    /\ (~Idle) ~> Returned

Wit_C15 ==
    /\ Returned /\ g.nIrq = 3 /\ g.nRet = 3
    /\ Len(g.seq) = Len(OrderA) /\ g.callbacks = 3

(* C16: from the disable write of an invocation entered with r1 # 0 until    *)
(* line 27 of SANCUS_STEP_INIT is executed again, the timer is stopped with  *)
(* its interrupt disabled and no handler invocation is entered, whatever     *)
(* runs in between: unprotected code, the module entered again, or the first *)
(* lines of SANCUS_STEP_INIT.                                                *)
Thm_C16 ==
    g.bSinceInit
        => /\ ~TimerRunning(tactl)
           /\ ~BitSet(tactl, TAIE)
           /\ g.irqSinceDis = 0
           /\ ipc \in {"reti", "none"}
           /\ ~IrqDue

Wit_C16 ==
    /\ g.bSinceInit /\ ctx = "sm" /\ Idle /\ GIE(sr)
    /\ g.smEntries = 2 /\ g.last = "sm_step" /\ g.retired = 2

\* r1 inside an invocation entered with r1 = 0, as words below __ss_isr_sp,
\* by the number of handler instructions executed
DepthA ==
    IF Len(g.seq) = 4 \/ Returned THEN 0
    ELSE IF Len(g.seq) = 5 THEN 1
    ELSE IF ipc = "fct" THEN 3
    ELSE 2

(* C17: __ss_isr_sp keeps its start value; in every invocation entered with  *)
(* r1 = 0, from the stack switch on, r1 is __ss_isr_sp minus a number of     *)
(* words that depends only on the position in the handler (0, 1, 2, 3 with   *)
(* the call's return address, 2 after the callback), the two words pushed    *)
(* are the entry r15 and 0, and reti pops exactly these: it returns with     *)
(* SR = 0, PC = the entry r15 and r1 = __ss_isr_sp.                          *)
Thm_C17 ==
    /\ ss_isr_sp = g.isrSp0
    /\ (Entered /\ StateA /\ Len(g.seq) >= 4 /\ (~Idle \/ Returned))
          => /\ r1 = W(ss_isr_sp + WordMod - 2 * DepthA)
             /\ Len(g.seq) >= 5 => Read(W(ss_isr_sp + WordMod - 2)) = g.ent.hr15
             /\ Len(g.seq) >= 6 => Read(W(ss_isr_sp + WordMod - 4)) = 0
             /\ Returned => (sr = 0 /\ pc = g.ent.hr15)

Wit_C17 ==
    /\ ipc = "fct" /\ StateA /\ g.nIrq = 3 /\ g.callbacks = 3
    /\ r1 = W(ss_isr_sp + WordMod - 6) /\ g.last = "fct"

(* C18: the first instruction every invocation executes, on either path, is  *)
(* the store of TAR to __ss_isr_tar_entry: before it nothing of the handler  *)
(* has run, right after it the variable equals TAR, and from then on (during *)
(* the branch, the callback, the timer writes and after the return, until    *)
(* the next invocation's store) the variable holds the stored count; before  *)
(* the first invocation it holds its start value 0.                          *)
Thm_C18 ==
    /\ ~Entered => ss_isr_tar_entry = 0
    /\ (Entered /\ Len(g.seq) = 0)
          => (ipc = "tar" /\ g.path = "none" /\ g.callbacks = g.ent.callbacks)
    /\ (Entered /\ Len(g.seq) >= 1)
          => (g.seq[1][1] = "tar" /\ ss_isr_tar_entry = g.seq[1][2])
    /\ g.last = "tar" => (ss_isr_tar_entry = tar /\ Len(g.seq) = 1)
    /\ \A i \in DOMAIN g.seq : g.seq[i][1] = "tar" => i = 1

Wit_C18 ==
    /\ ipc = "fct" /\ g.nIrq = 2 /\ StateA
    /\ ss_isr_tar_entry = 1 /\ tar = 0 /\ g.seq[1] = <<"tar", 1>>

====
